---- MODULE Spec2Model ----
(***************************************************************************)
(* Model of the WhatsApp messaging back end: the contact store kept in     *)
(* bd_envio.csv (utils/csv_handler.py), the Flask API of app.py (POST      *)
(* /webhook, POST /api/messages/send-batch), and the standalone webhook    *)
(* server of webhook.py that works on the same file.                       *)
(*                                                                         *)
(* Text values (phones, message texts, ids, cell values) are sequences of  *)
(* one-character strings so that strip/lower/upper/replace are computed     *)
(* as Python computes them.  Timestamps (datetime.now().isoformat()) are   *)
(* the value of a logical clock; 0 stands for an empty timestamp cell.     *)
(***************************************************************************)
EXTENDS Integers, Sequences, FiniteSets, TLC

\* ------------------------------------------------------------------ bounds
MaxRequests == 2
MaxWordLen == 3

\* ------------------------------------------------------------ text helpers
Empty == <<>>

RECURSIVE LStrip(_)
LStrip(s) == IF s # <<>> /\ Head(s) = " " THEN LStrip(Tail(s)) ELSE s

RECURSIVE RStrip(_)
RStrip(s) == IF s # <<>> /\ s[Len(s)] = " " THEN RStrip(SubSeq(s, 1, Len(s) - 1)) ELSE s

\* str.strip()
Strip(s) == RStrip(LStrip(s))

LowerChar(c) ==
    CASE c = "S" -> "s" [] c = "I" -> "i" [] c = "Í" -> "í" [] c = "N" -> "n"
      [] c = "O" -> "o" [] c = "Y" -> "y" [] c = "E" -> "e" [] c = "T" -> "t"
      [] c = "R" -> "r" [] c = "U" -> "u" [] OTHER -> c

UpperChar(c) ==
    CASE c = "s" -> "S" [] c = "i" -> "I" [] c = "í" -> "Í" [] c = "n" -> "N"
      [] c = "o" -> "O" [] c = "y" -> "Y" [] c = "e" -> "E" [] c = "t" -> "T"
      [] c = "r" -> "R" [] c = "u" -> "U" [] OTHER -> c

\* str.lower() and str.upper()
Lower(s) == [i \in 1..Len(s) |-> LowerChar(s[i])]
Upper(s) == [i \in 1..Len(s) |-> UpperChar(s[i])]

\* str.replace(c, '')
RECURSIVE Remove(_, _)
Remove(s, c) ==
    IF s = <<>> THEN <<>>
    ELSE IF Head(s) = c THEN Remove(Tail(s), c)
    ELSE <<Head(s)>> \o Remove(Tail(s), c)

\* str(cell) of a cell of a DataFrame read with dtype=str: an empty cell is
\* NaN and prints as 'nan'
StrCell(v) == IF v = Empty THEN <<"n", "a", "n">> ELSE v

\* phone.strip().replace('+', '').replace(' ', '').replace('-', '')
NormalizePhone(p) == Remove(Remove(Remove(Strip(p), "+"), " "), "-")

\* ---------------------------------------------------------------- literals
Si == <<"S", "í">>
No == <<"N", "o">>
valid_yes == { <<"s", "i">>, <<"s", "í">>, <<"y", "e", "s">>, <<"y">> }
valid_no == { <<"n", "o">>, <<"n">> }
sent == <<"s", "e", "n", "t">>
error == <<"e", "r", "r", "o", "r">>
OptInTrue == { <<"T", "R", "U", "E">>, <<"1">>, <<"Y", "E", "S">>, <<"S", "I">>, <<"S", "Í">> }

\* ------------------------------------------------------- the contact store
\* A DataFrame / CSV file is [cols |-> the optional columns it has,
\* rows |-> its rows in file order].  telefono_e164 is always present; a
\* field of a column the frame lacks is Empty.
TrackingColumns == {"estado_envio_simple", "fecha_envio_simple", "message_id_simple"}
ResponseColumns == {"respuesta", "fecha_respuesta", "respuesta_id"}

Row(tel, optin, bootcamp) ==
    [telefono_e164 |-> tel, opt_in |-> optin, bootcamp_id |-> bootcamp,
     estado_envio_simple |-> Empty, fecha_envio_simple |-> 0, message_id_simple |-> Empty,
     respuesta |-> Empty, fecha_respuesta |-> 0, respuesta_id |-> Empty]

\* CSVHandler.load_csv on a readable file: the three send-tracking columns
\* are created when missing (the reply columns are not)
load_csv(file) ==
    [success |-> TRUE, df |-> [cols |-> file.cols \cup TrackingColumns, rows |-> file.rows]]

\* CSVHandler.find_contact_by_phone: index of the first row whose phone equals
\* the searched phone after both are normalized; 0 stands for None
find_contact_by_phone(df, phone) ==
    LET matches == {i \in 1..Len(df.rows) :
                      NormalizePhone(StrCell(df.rows[i].telefono_e164)) = NormalizePhone(phone)}
    IN  IF matches = {} THEN 0 ELSE CHOOSE i \in matches : \A j \in matches : i <= j

\* update_response as an upsert: a phone found in no row gets a new row
update_response_upsert(df, phone, response_text, button_id, now) ==
    LET df1 == [df EXCEPT !.cols = @ \cup ResponseColumns]
        idx == find_contact_by_phone(df1, phone)
        new == [Row(phone, Empty, Empty) EXCEPT !.respuesta = response_text,
                                                 !.fecha_respuesta = now,
                                                 !.respuesta_id = button_id]
        df2 == IF idx = 0
               THEN [df1 EXCEPT !.rows = Append(@, new)]
               ELSE [df1 EXCEPT !.rows[idx] =
                        [@ EXCEPT !.respuesta = response_text,
                                  !.fecha_respuesta = now,
                                  !.respuesta_id = IF button_id # Empty THEN button_id ELSE @]]
    IN  IF "nombre" \notin df2.cols
        THEN [success |-> FALSE, raised |-> TRUE, df |-> df2]
        ELSE [success |-> TRUE, raised |-> FALSE, df |-> df2]

\* update_response adding the reply to the one already stored
update_response_append(df, phone, response_text, button_id, now) ==
    LET df1 == [df EXCEPT !.cols = @ \cup ResponseColumns]
        idx == find_contact_by_phone(df1, phone)
        df2 == [df1 EXCEPT !.rows[idx] =
                   [@ EXCEPT !.respuesta = @ \o response_text,
                             !.fecha_respuesta = now,
                             !.respuesta_id = IF button_id # Empty THEN button_id ELSE @]]
    IN  IF idx = 0
        THEN [success |-> FALSE, raised |-> FALSE, df |-> df1]
        ELSE IF "nombre" \notin df2.cols
        THEN [success |-> FALSE, raised |-> TRUE, df |-> df2]
        ELSE [success |-> TRUE, raised |-> FALSE, df |-> df2]

\* CSVHandler.update_response.  raised: the KeyError of df.at[idx, 'nombre']
\* when the frame has no 'nombre' column (the message is built after the
\* in-memory update).
update_response(df, phone, response_text, button_id, now) ==
    LET df1 == [df EXCEPT !.cols = @ \cup ResponseColumns]
        idx == find_contact_by_phone(df1, phone)
        df2 == [df1 EXCEPT !.rows[idx] =
                   [@ EXCEPT !.respuesta = response_text,
                             !.fecha_respuesta = now,
                             !.respuesta_id = IF button_id # Empty THEN button_id ELSE @]]
    IN  IF idx = 0
        THEN [success |-> FALSE, raised |-> FALSE, df |-> df1]
        ELSE IF "nombre" \notin df2.cols
        THEN [success |-> FALSE, raised |-> TRUE, df |-> df2]
        ELSE [success |-> TRUE, raised |-> FALSE, df |-> df2]

\* ------------------------------------------------------- inbound messages
Msg(from, type, itype, text, id, ctx) ==
    [from |-> from, type |-> type, itype |-> itype, text |-> text, id |-> id, ctx |-> ctx]

\* app.py webhook: response_text and button_id by message type.  id is the
\* button payload / reply id, text the button text / reply title / text body.
Extract(m) ==
    CASE m.type = "button" ->
            [response_text |-> m.text,
             button_id |-> IF m.id # Empty THEN m.id ELSE m.text]
      [] m.type = "interactive" /\ m.itype \in {"button_reply", "list_reply"} ->
            [response_text |-> m.text, button_id |-> m.id]
      [] m.type = "interactive" /\ m.itype = "nfm_reply" ->
            [response_text |-> m.text, button_id |-> <<"f", "l", "o", "w", ":">> \o m.id]
      [] m.type = "text" ->
            [response_text |-> m.text, button_id |-> Empty]
      [] OTHER ->
            [response_text |-> Empty, button_id |-> Empty]

\* the reply lower-cased but not trimmed
response_normalized_untrimmed(m) == Lower(Extract(m).response_text)

response_normalized(m) == Lower(Strip(Extract(m).response_text))

\* any non-empty reply taken as valid
is_valid_response_any(m) == response_normalized(m) # Empty

is_valid_response(m) ==
    response_normalized(m) \in valid_yes \/ response_normalized(m) \in valid_no

standardized_response(m) == IF response_normalized(m) \in valid_yes THEN Si ELSE No

\* app.py lines 862-871 as a function of the message: a message without
\* text is not classified as a reply (nothing is recorded for it)
classify(m) ==
    IF Extract(m).response_text = Empty \/ m.from = Empty THEN "Invalid"
    ELSE IF ~is_valid_response(m) THEN "Invalid"
    ELSE IF standardized_response(m) = Si THEN "Yes"
    ELSE "No"

correlation_id(m) == IF Extract(m).button_id # Empty THEN Extract(m).button_id ELSE m.ctx

\* ------------------------------------------------------------ the database
\* estudiantes table of services/db_handler.py: a sequence of rows.  Null is
\* SQL NULL (a NaN cell bound as a parameter is stored as NULL).
Null == <<"NULL">>

SqlClean(p) == Remove(Remove(Remove(p, "+"), " "), "-")

\* DatabaseHandler.update_respuesta: the UPDATE statement; AND binds tighter
\* than OR in its WHERE clause
update_respuesta(table, telefono, respuesta, fecha_respuesta) ==
    LET telefono_clean == SqlClean(telefono)
        where(r) == (SqlClean(r.telefono_e164) = telefono_clean /\ r.respuesta = Null)
                    \/ r.respuesta = Empty
        rows_affected == Cardinality({i \in 1..Len(table) : where(table[i])})
    IN  [table |-> [i \in 1..Len(table) |->
                       IF where(table[i])
                       THEN [table[i] EXCEPT !.respuesta = respuesta,
                                             !.fecha_respuesta = fecha_respuesta]
                       ELSE table[i]],
         success |-> rows_affected > 0]

\* CSVHandler.get_pending_contacts: the indexes, in row order, of the rows
\* that pass the opt_in check (made only if the column exists) and whose
\* estado_envio_simple is not 'sent'
IsPending(df, i) ==
    /\ ("opt_in" \in df.cols => Upper(Strip(StrCell(df.rows[i].opt_in))) \in OptInTrue)
    /\ Lower(Strip(StrCell(df.rows[i].estado_envio_simple))) # sent

RECURSIVE PendingFrom(_, _)
PendingFrom(df, i) ==
    IF i > Len(df.rows) THEN <<>>
    ELSE (IF IsPending(df, i) THEN <<i>> ELSE <<>>) \o PendingFrom(df, i + 1)

\* get_pending_contacts listing the pending rows from the last to the first
get_pending_contacts_reversed(df) ==
    LET pending == PendingFrom(df, 1)
    IN  [j \in 1..Len(pending) |-> pending[Len(pending) + 1 - j]]

get_pending_contacts(df) == PendingFrom(df, 1)

\* CSVHandler.update_send_status
update_send_status(df, idx, success, result, now) ==
    [df EXCEPT !.rows[idx] =
        [@ EXCEPT !.estado_envio_simple = IF success THEN sent ELSE error,
                  !.message_id_simple = IF success THEN result ELSE @,
                  !.fecha_envio_simple = now]]

\* CSVHandler.get_statistics: the rows whose send state is exactly 'sent' or
\* 'error' are counted
get_statistics(df) ==
    LET n_sent == Cardinality({i \in 1..Len(df.rows) : df.rows[i].estado_envio_simple = sent})
        n_errors == Cardinality({i \in 1..Len(df.rows) : df.rows[i].estado_envio_simple = error})
    IN  [total |-> Len(df.rows), sent |-> n_sent, errors |-> n_errors,
         pending |-> Len(df.rows) - n_sent - n_errors]

\* a contact's name: the cell of the 'nombre' column, or the default of
\* CSVHandler.get_contact_info
Usuario == <<"U">>

\* DatabaseHandler.insert_or_update_estudiante: INSERT ... ON CONFLICT
\* (telefono_e164, bootcamp_id) DO UPDATE; a NULL bootcamp_id conflicts with
\* nothing.  Every column but the key is overwritten by the new values.
insert_or_update_estudiante(table, data) ==
    LET conflicts == {i \in 1..Len(table) :
                        /\ table[i].telefono_e164 = data.telefono_e164
                        /\ table[i].bootcamp_id = data.bootcamp_id
                        /\ data.bootcamp_id # Null}
    IN  IF data.telefono_e164 = Empty \/ data.nombre = Empty
        THEN table     \* "Campo requerido faltante"
        ELSE IF conflicts = {}
        THEN Append(table, data)
        ELSE [i \in 1..Len(table) |-> IF i \in conflicts THEN data ELSE table[i]]

\* send_batch_messages lines 338-353: the record passed to the database for
\* a contact that was sent to (no reply fields: they default to '' and None)
BatchEstudiante(df, idx, result) ==
    [telefono_e164 |-> df.rows[idx].telefono_e164,
     nombre |-> Usuario,
     bootcamp_id |-> IF "bootcamp_id" \notin df.cols THEN Empty
                     ELSE IF df.rows[idx].bootcamp_id = Empty THEN Null
                     ELSE df.rows[idx].bootcamp_id,
     opt_in |-> IF "opt_in" \notin df.cols THEN Empty
                ELSE IF df.rows[idx].opt_in = Empty THEN Null
                ELSE df.rows[idx].opt_in,
     estado_envio |-> sent,
     fecha_envio |-> 0,
     message_id |-> result,
     respuesta |-> Empty,
     fecha_respuesta |-> 0]

\* data_normalizer.clean_phone_numbers: every phone cell as text, stripped,
\* without ' ', '-', '(', ')' and '+'
clean_phone(p) ==
    Remove(Remove(Remove(Remove(Remove(Strip(StrCell(p)), " "), "-"), "("), ")"), "+")

clean_phone_numbers(df) ==
    [df EXCEPT !.rows = [i \in 1..Len(df.rows) |->
                            [df.rows[i] EXCEPT !.telefono_e164 = clean_phone(@)]]]

\* data_normalizer.add_tracking_columns: the six tracking columns are created
\* (empty) when missing
add_tracking_columns(df) ==
    [df EXCEPT !.cols = @ \cup TrackingColumns \cup ResponseColumns]

\* data_normalizer.validate_dataframe
validate_dataframe(df) ==
    /\ df.rows # <<>>
    /\ \E i \in 1..Len(df.rows) : Strip(StrCell(df.rows[i].telefono_e164)) # Empty

\* upload_from_google lines 619-636: the record passed to the database for
\* row i of the imported frame; file is the frame as parsed, where an empty
\* cell of an existing column is NaN (stored as NULL) and a missing column
\* gives the default of row.get
UploadEstudiante(file, df, i) ==
    LET cell(col, v) == IF col \notin file.cols THEN Empty
                        ELSE IF v = Empty THEN Null ELSE v
    IN  [telefono_e164 |-> df.rows[i].telefono_e164,
         nombre |-> IF "nombre" \in file.cols THEN Usuario ELSE Empty,
         bootcamp_id |-> cell("bootcamp_id", df.rows[i].bootcamp_id),
         opt_in |-> cell("opt_in", df.rows[i].opt_in),
         estado_envio |-> Empty,
         fecha_envio |-> 0,
         message_id |-> Empty,
         respuesta |-> cell("respuesta", df.rows[i].respuesta),
         fecha_respuesta |-> IF "fecha_respuesta" \in file.cols
                             THEN df.rows[i].fecha_respuesta ELSE 0]

\* upload_from_google lines 618-641, "for idx, row in df.iterrows()"
RECURSIVE UploadEstudiantes(_, _, _, _)
UploadEstudiantes(table, file, df, i) ==
    IF i > Len(df.rows) THEN table
    ELSE UploadEstudiantes(insert_or_update_estudiante(table, UploadEstudiante(file, df, i)),
                           file, df, i + 1)

\* webhook.py normalizar_telefono_busqueda
normalizar_telefono_busqueda(telefono) ==
    IF telefono = Empty THEN Empty
    ELSE Strip(Remove(Remove(Remove(telefono, "+"), " "), "-"))

\* webhook.py procesar_mensaje: the reply text and id taken from a message
\* (only 'interactive' and 'text' are processed)
respuesta_texto(m) ==
    CASE m.type = "interactive" -> IF m.itype = "button_reply" THEN m.text ELSE Empty
      [] m.type = "text" -> m.text
      [] OTHER -> Empty

respuesta_id(m) ==
    CASE m.type = "interactive" -> IF m.itype = "button_reply" THEN m.id ELSE Empty
      [] m.type = "text" -> <<"t", "e", "x", "t", "_", "l", "i", "b", "r", "e">>
      [] OTHER -> Empty

\* actualizar_respuesta_en_csv writing the reply to the first matching row only
actualizar_respuesta_en_csv_first(file, wa_id, texto, id, now) ==
    LET mascara == {i \in 1..Len(file.rows) :
                      normalizar_telefono_busqueda(StrCell(file.rows[i].telefono_e164))
                        = normalizar_telefono_busqueda(wa_id)}
        first == IF mascara = {} THEN 0
                 ELSE CHOOSE i \in mascara : \A j \in mascara : i <= j
    IN  IF mascara = {}
        THEN file
        ELSE [cols |-> file.cols \cup ResponseColumns,
              rows |-> [i \in 1..Len(file.rows) |->
                          IF i = first
                          THEN [file.rows[i] EXCEPT !.respuesta = texto,
                                                    !.fecha_respuesta = now,
                                                    !.respuesta_id = id]
                          ELSE file.rows[i]]]

\* webhook.py actualizar_respuesta_en_csv: the file after the call; every row
\* whose normalized phone matches is overwritten, whatever it held
actualizar_respuesta_en_csv(file, wa_id, texto, id, now) ==
    LET mascara == {i \in 1..Len(file.rows) :
                      normalizar_telefono_busqueda(StrCell(file.rows[i].telefono_e164))
                        = normalizar_telefono_busqueda(wa_id)}
    IN  IF mascara = {}
        THEN file
        ELSE [cols |-> file.cols \cup ResponseColumns,
              rows |-> [i \in 1..Len(file.rows) |->
                          IF i \in mascara
                          THEN [file.rows[i] EXCEPT !.respuesta = texto,
                                                    !.fecha_respuesta = now,
                                                    !.respuesta_id = id]
                          ELSE file.rows[i]]]

\* webhook.py webhook_post, "for message in messages: procesar_mensaje(message)"
RECURSIVE procesar_mensajes(_, _, _)
procesar_mensajes(file, messages, now) ==
    IF messages = <<>> THEN file
    ELSE LET m == Head(messages)
             file1 == IF respuesta_texto(m) # Empty
                      THEN actualizar_respuesta_en_csv(file, m.from, respuesta_texto(m),
                                                       respuesta_id(m), now)
                      ELSE file
         IN  procesar_mensajes(file1, Tail(messages), now + 1)

\* -------------------------------------------------------- WhatsAppService
\* what the environment holds for ACCESS_TOKEN and PHONE_NUMBER_ID: NoEnv is
\* an unset variable (os.getenv gives None)
NoEnv == <<"None">>
tu_token_aqui == <<"t", "u">>
ErrAccessToken == <<"A">>
ErrPhoneNumberId == <<"P">>
ErrUnexpectedResponse == <<"R">>
ErrStatus == <<"E">>
ErrTimeout == <<"T">>
ErrConnection == <<"C">>
ErrUnexpected == <<"X">>

\* WhatsAppService.validate_credentials
validate_credentials(access_token, phone_number_id) ==
    IF access_token \in {NoEnv, Empty} \/ access_token = tu_token_aqui
    THEN [valid |-> FALSE, msg |-> ErrAccessToken]
    ELSE IF phone_number_id \in {NoEnv, Empty}
    THEN [valid |-> FALSE, msg |-> ErrPhoneNumberId]
    ELSE [valid |-> TRUE, msg |-> Empty]

\* what one requests.post to the provider does: it answers 200 with a
\* messages entry that has an id ("id") or none ("noid"), 200 without
\* messages ("nomessages"), another status ("rejected"), or raises Timeout,
\* ConnectionError or another exception
ProviderOutcomes == {"id", "noid", "nomessages", "rejected", "timeout", "connection", "exception"}
MessageId == <<"m">>

\* lines 185-217 and 245-292: the try block around the single requests.post
\* and its except clauses; calls is the number of requests.post calls
post_once(outcome) ==
    CASE outcome = "id" -> [calls |-> 1, success |-> TRUE, result |-> MessageId, raised |-> FALSE]
      [] outcome = "noid" -> [calls |-> 1, success |-> TRUE, result |-> Empty, raised |-> FALSE]
      [] outcome = "nomessages" -> [calls |-> 1, success |-> FALSE, result |-> ErrUnexpectedResponse, raised |-> FALSE]
      [] outcome = "rejected" -> [calls |-> 1, success |-> FALSE, result |-> ErrStatus, raised |-> FALSE]
      [] outcome = "timeout" -> [calls |-> 1, success |-> FALSE, result |-> ErrTimeout, raised |-> FALSE]
      [] outcome = "connection" -> [calls |-> 1, success |-> FALSE, result |-> ErrConnection, raised |-> FALSE]
      [] outcome = "exception" -> [calls |-> 1, success |-> FALSE, result |-> ErrUnexpected, raised |-> FALSE]

\* WhatsAppService.send_text_message
send_text_message(access_token, phone_number_id, outcome) ==
    LET checked == validate_credentials(access_token, phone_number_id)
    IN  IF ~checked.valid
        THEN [calls |-> 0, success |-> FALSE, result |-> checked.msg, raised |-> FALSE]
        ELSE post_once(outcome)

\* send_template_message posting again when the first post fails
send_template_message_retrying(access_token, phone_number_id, outcome) ==
    LET checked == validate_credentials(access_token, phone_number_id)
    IN  IF ~checked.valid
        THEN [calls |-> 0, success |-> FALSE, result |-> checked.msg, raised |-> FALSE]
        ELSE IF post_once(outcome).success
        THEN post_once(outcome)
        ELSE [post_once(outcome) EXCEPT !.calls = 2]

\* WhatsAppService.send_template_message
send_template_message(access_token, phone_number_id, outcome) ==
    LET checked == validate_credentials(access_token, phone_number_id)
    IN  IF ~checked.valid
        THEN [calls |-> 0, success |-> FALSE, result |-> checked.msg, raised |-> FALSE]
        ELSE post_once(outcome)

\* ------------------------------------------------------- sample input data
Phone57 == <<"5", "7">>
Phone58 == <<"5", "8">>
Phone99 == <<"9", "9">>
Phone56 == <<"5", "6">>
TRUE_ == <<"T", "R", "U", "E">>
FALSE_ == <<"F", "A", "L", "S", "E">>

FullColumns == {"nombre", "opt_in", "bootcamp_id", "fecha_envio"} \cup TrackingColumns \cup ResponseColumns
ImportedColumns == {"nombre", "opt_in", "bootcamp_id"} \cup TrackingColumns \cup ResponseColumns
BareColumns == {"nombre", "opt_in"}
MinimalColumns == {}

\* the rosters the store starts from: a stored phone with '+', opt_in values
\* written in several ways, files that lack optional columns, and a roster
\* of three contacts whose first phone is written with parentheses
InitialFiles ==
    { [cols |-> c, rows |-> << Row(<<"+">> \o Phone57, o[1], <<"b", "1">>),
                               Row(Phone58, o[2], <<"b", "1">>) >>] :
        c \in {FullColumns, ImportedColumns},
        o \in { <<TRUE_, TRUE_>>, << <<" ", "s", "i">>, FALSE_ >>, <<TRUE_, Empty>> } }
    \cup
    { [cols |-> BareColumns, rows |-> << Row(<<"+">> \o Phone57, TRUE_, Empty),
                                         Row(Phone58, Empty, Empty) >>],
      [cols |-> MinimalColumns, rows |-> << Row(<<"+">> \o Phone57, Empty, Empty),
                                            Row(Phone58, Empty, Empty) >>],
      [cols |-> FullColumns, rows |-> << Row(<<"+", "(", "5", ")", "7">>, FALSE_, <<"b", "1">>),
                                         Row(Phone58, TRUE_, <<"b", "1">>),
                                         Row(Phone56, TRUE_, <<"b", "1">>) >>] }

\* the rosters offered for import from Drive: the roster of the store
\* without reply values, one with phones written with punctuation, one
\* without bootcamp_id column, one without a usable phone
UploadFiles ==
    { [cols |-> {"nombre", "opt_in", "bootcamp_id"},
       rows |-> << Row(<<"+">> \o Phone57, TRUE_, <<"b", "1">>),
                   Row(Phone58, TRUE_, <<"b", "1">>) >>],
      [cols |-> {"nombre", "opt_in", "bootcamp_id"},
       rows |-> << Row(<<"(", "5", ")", "7">>, TRUE_, <<"b", "1">>),
                   Row(<<"5", "7">>, Empty, <<"b", "1">>) >>],
      [cols |-> {"nombre"},
       rows |-> << Row(Phone57, Empty, Empty) >>],
      [cols |-> {"nombre", "bootcamp_id"},
       rows |-> << Row(<<" ">>, Empty, <<"b", "1">>) >>] }

TxtSi == <<"S", "í">>
TxtNO == <<" ", "N", "O", " ">>
TxtTalVez == <<"t", "a", "l">>
TxtSiConfirmo == <<"S", "í", ",", " ", "c">>

SampleMessages ==
    << Msg(Phone57, "text", "none", TxtSi, Empty, Empty),
       Msg(Phone57, "text", "none", TxtNO, Empty, Empty),
       Msg(Phone57, "text", "none", TxtTalVez, Empty, Empty),
       Msg(Phone58, "button", "none", <<"N", "o">>, <<"b", "2">>, Empty),
       Msg(Phone58, "interactive", "button_reply", <<"S", "i">>, <<"b", "1">>, Empty),
       Msg(Phone99, "text", "none", TxtTalVez, Empty, Empty),
       Msg(Phone99, "text", "none", TxtSi, Empty, Empty),
       Msg(Phone57, "image", "none", Empty, Empty, Empty),
       Msg(Phone57, "text", "none", TxtSiConfirmo, Empty, Empty) >>

\* texts to classify: every word of up to MaxWordLen letters, bare or with
\* blanks around it
Letters == {"s", "S", "i", "í", "Í", "n", "N", "o", "ó", "y", "e"}

RECURSIVE Words(_)
Words(n) ==
    IF n = 0 THEN { <<>> }
    ELSE Words(n - 1) \cup { Append(w, c) : w \in Words(n - 1), c \in Letters }

Blanks == { <<>>, <<" ">> }
ClassifyTexts == { l \o w \o r : l \in Blanks, w \in Words(MaxWordLen), r \in Blanks }

\* the messages to classify: a text message for each text, and a message
\* without text
ClassifyMessages ==
    { Msg(Phone57, "text", "none", t, Empty, Empty) : t \in ClassifyTexts }
    \cup { Msg(Phone57, "image", "none", Empty, Empty, Empty) }

\* request bodies: kind "missing" is a request without a JSON body, "noentry"
\* a JSON object without 'entry', "malformed" a body whose 'entry' cannot be
\* walked (processing raises), "ok" an envelope carrying messages
Body(kind, messages) == [kind |-> kind, messages |-> messages]

SampleBodies ==
    { Body("missing", <<>>), Body("noentry", <<>>), Body("malformed", <<>>) }
    \cup { Body("ok", <<SampleMessages[i]>>) : i \in 1..Len(SampleMessages) }
    \cup { Body("ok", <<SampleMessages[3], SampleMessages[1]>>),
           Body("ok", <<SampleMessages[1], SampleMessages[5]>>) }

\* the button event of test_webhook.py test_webhook_button_response (the
\* sender written as the sample phone 57), and the deliveries the
\* standalone server of webhook.py receives; CheckMark stands for the
\* character U+2705 that ends the button's title
CheckMark == "V"
SiConfirmo == <<"S", "í", " ", "c", "o", "n", "f", "i", "r", "m", "o", " ", CheckMark>>
btn_si == <<"b", "t", "n", "_", "s", "i">>
TestButtonEvent == Msg(Phone57, "interactive", "button_reply", SiConfirmo, btn_si, Empty)
StandaloneBodies == SampleBodies \cup { Body("ok", <<TestButtonEvent>>) }

\* the files webhook.py finds at CSV_PATH: those of the store, and one that
\* lists a phone twice, written in two ways
StandaloneFiles ==
    InitialFiles
    \cup { [cols |-> FullColumns, rows |-> << Row(<<"+">> \o Phone57, TRUE_, <<"b", "1">>),
                                              Row(<<"5", "-", "7">>, TRUE_, <<"b", "1">>),
                                              Row(Phone58, TRUE_, <<"b", "1">>) >>] }

\* -------------------------------------------------------------------- state
VARIABLES
    csv,            \* bd_envio.csv, the file on disk
    db,             \* the estudiantes table
    outbox,         \* calls made to the provider: [to, kind, ok]
    clock,          \* datetime.now()
    pending_sync,   \* app.py global
    web,            \* per request thread of app.py POST /webhook: position and locals
    batch,          \* the request thread of POST /api/messages/send-batch
    status,         \* last HTTP status answered by each handler (0: none yet)
    requests,       \* number of requests received so far
    last,           \* history: the body of the request that app.py's webhook
                    \* completed last and how many times in a row it has been
                    \* handled, if no other operation ran since
    http,           \* the last GET /webhook request and the response to it
    classified,     \* a message and the decision the classifier takes on it
    readable,       \* bd_envio.csv exists and pd.read_csv can read it
    response,       \* the JSON body of the last answer of send_batch_messages
    writable,       \* bd_envio.csv can be written (DataFrame.to_csv does not raise)
    cached,         \* app.py globals cached_file_id, cached_access_token, cached_mime_type
    sync,           \* the scheduler's job sync_to_drive_if_needed: position and locals
    drive,          \* the content of the roster file on Google Drive
    returned        \* the last call of a send method of WhatsAppService: its
                    \* arguments, the provider's behaviour, the number of
                    \* requests.post calls made and what the method returned

vars == <<csv, db, outbox, clock, pending_sync, web, batch, status, requests, last, http, classified,
          readable, response, returned, writable, cached, sync, drive>>

\* a request parameter that is absent: request.args.get gives None
None == <<"None">>

\* the verification secret each server is configured with (VERIFY_TOKEN)
VERIFY_TOKEN(server) ==
    IF server = "app" THEN <<"t", "1">> ELSE <<"t", "2">>

Forbidden == <<"F">>
InternalServerError == <<"E">>
NoExchange == [server |-> "none", mode |-> None, token |-> None, challenge |-> None,
               status |-> 0, body |-> Empty]

NoDecision == [m |-> Msg(Empty, "none", "none", Empty, Empty, Empty), decision |-> "none"]

Handlers == {"w1", "w2"}
NoDf == [cols |-> {}, rows |-> <<>>]
NoBody == Body("none", <<>>)
IdleHandler == [pc |-> "idle", body |-> NoBody, i |-> 0, df |-> NoDf, csv0 |-> NoDf]
NoLast == [body |-> NoBody, n |-> 0]
Handled(body) == [body |-> body, n |-> IF last.body = body THEN last.n + 1 ELSE 1]
IdleBatch == [pc |-> "idle", df |-> NoDf, pending_contacts |-> <<>>, k |-> 0,
              sent_count |-> 0, error_count |-> 0, results |-> <<>>, slept |-> FALSE]
NoResponse == [success |-> FALSE]
NoCache == [file_id |-> None, access_token |-> None, mime_type |-> None]
IdleSync == [pc |-> "idle", df |-> NoDf]
NoReturn == [method |-> "none", access_token |-> NoEnv, phone_number_id |-> NoEnv,
             outcome |-> "none", calls |-> 0, success |-> FALSE, result |-> Empty,
             raised |-> FALSE]

Init ==
    /\ readable \in BOOLEAN
    /\ csv \in (IF readable THEN InitialFiles ELSE {NoDf})
    /\ db = <<>>
    /\ outbox = <<>>
    /\ clock = 1
    /\ pending_sync = FALSE
    /\ web = [w \in Handlers |-> IdleHandler]
    /\ batch = IdleBatch
    /\ status = [h \in Handlers \cup {"webhook_post", "send_batch", "upload_from_google"} |-> 0]
    /\ requests = 0
    /\ last = NoLast
    /\ http = NoExchange
    /\ classified = NoDecision
    /\ response = NoResponse
    /\ returned = NoReturn
    /\ writable \in BOOLEAN
    /\ cached = NoCache
    /\ sync = IdleSync
    /\ drive = NoDf

\* webhook.py started beside its file
StandaloneInit ==
    /\ readable \in BOOLEAN
    /\ csv \in (IF readable THEN StandaloneFiles ELSE {NoDf})
    /\ db = <<>>
    /\ outbox = <<>>
    /\ clock = 1
    /\ pending_sync = FALSE
    /\ web = [w \in Handlers |-> IdleHandler]
    /\ batch = IdleBatch
    /\ status = [h \in Handlers \cup {"webhook_post", "send_batch", "upload_from_google"} |-> 0]
    /\ requests = 0
    /\ last = NoLast
    /\ http = NoExchange
    /\ classified = NoDecision
    /\ response = NoResponse
    /\ returned = NoReturn
    /\ writable \in BOOLEAN
    /\ cached = NoCache
    /\ sync = IdleSync
    /\ drive = NoDf

\* CSVHandler.save_csv: the file after the call; when to_csv raises the
\* method returns (False, msg) and the file is as it was
save_csv(df) == IF writable THEN df ELSE csv

\* WhatsAppService.send_text_message / send_template_message as seen from
\* their callers: one call to the provider, which accepts it or not; nothing
\* is raised
send_message(phone, kind, ok) ==
    outbox' = Append(outbox, [to |-> NormalizePhone(phone), kind |-> kind, ok |-> ok])

\* ------------------------------------------------ app.py: POST /webhook
CurrentMessage(w) == web[w].body.messages[web[w].i]

\* the request is answered: return jsonify({'status': 'ok'}), 200, either
\* after the loops or from the except clause
Complete(w) ==
    /\ web' = [web EXCEPT ![w] = IdleHandler]
    /\ status' = [status EXCEPT ![w] = 200]
    /\ last' = Handled(web[w].body)

\* next iteration of "for message in messages", or the end of the loops
Continue(w) ==
    IF web[w].i < Len(web[w].body.messages)
    THEN /\ web' = [web EXCEPT ![w].pc = "msg", ![w].i = @ + 1, ![w].df = NoDf]
         /\ UNCHANGED <<status, last>>
    ELSE Complete(w)

\* lines 798-811: the body is read; a body without 'entry' is answered at
\* once, and so is one whose processing raises
WebhookReceive(w, body) ==
    /\ web[w].pc = "idle"
    /\ requests < MaxRequests
    /\ requests' = requests + 1
    /\ IF body.kind = "ok"
       THEN /\ web' = [web EXCEPT ![w] = [pc |-> "msg", body |-> body, i |-> 1,
                                          df |-> NoDf, csv0 |-> csv]]
            /\ status' = [status EXCEPT ![w] = 0]
            /\ UNCHANGED last
       ELSE /\ status' = [status EXCEPT ![w] = 200]
            /\ last' = Handled(body)
            /\ UNCHANGED web
    /\ UNCHANGED <<csv, db, outbox, clock, pending_sync, batch, http, classified, readable, response, returned, writable, cached, sync, drive>>

\* lines 813-876 and 934-961: one message is extracted and classified; a
\* valid reply loads the store, an invalid one is answered with the
\* validation text unless the contact has already replied
WebhookMessage(w) ==
    /\ web[w].pc = "msg"
    /\ LET m == CurrentMessage(w)
           loaded == load_csv(csv)
           idx == find_contact_by_phone(loaded.df, m.from)
       IN  IF Extract(m).response_text = Empty \/ m.from = Empty
           THEN Continue(w) /\ UNCHANGED outbox
           ELSE IF is_valid_response(m)
           THEN IF ~readable
                THEN Continue(w) /\ UNCHANGED outbox    \* "if not success: ... continue"
                ELSE /\ web' = [web EXCEPT ![w].pc = "record", ![w].df = loaded.df]
                     /\ UNCHANGED <<status, last, outbox>>
           ELSE IF ~readable
           THEN /\ \E ok \in BOOLEAN : send_message(m.from, "validation", ok)
                /\ Continue(w)
           ELSE IF idx # 0 /\ "respuesta" \notin loaded.df.cols
           THEN Complete(w) /\ UNCHANGED outbox    \* KeyError of df.at[idx, 'respuesta']
           ELSE IF idx # 0 /\ Strip(StrCell(loaded.df.rows[idx].respuesta)) \notin {Empty, <<"n", "a", "n">>}
           THEN Continue(w) /\ UNCHANGED outbox
           ELSE /\ \E ok \in BOOLEAN : send_message(m.from, "validation", ok)
                /\ Continue(w)
    /\ UNCHANGED <<csv, db, clock, pending_sync, batch, requests, http, classified, readable, response, returned, writable, cached, sync, drive>>

\* WebhookRecord undoing the save when the thank-you is not accepted
WebhookRecord_rollback(w) ==
    /\ web[w].pc = "record"
    /\ LET m == CurrentMessage(w)
           r == update_response(web[w].df, m.from, standardized_response(m),
                                correlation_id(m), clock)
           idx == find_contact_by_phone(r.df, m.from)
       IN  /\ clock' = IF idx # 0 THEN clock + 1 ELSE clock
           /\ IF r.raised
              THEN Complete(w) /\ UNCHANGED <<csv, db, pending_sync, outbox>>
              ELSE IF r.success
              THEN /\ \E ok \in BOOLEAN :
                        /\ send_message(m.from, "thanks", ok)
                        /\ csv' = IF ok THEN save_csv(r.df) ELSE csv
                   /\ db' = update_respuesta(db, m.from, standardized_response(m),
                                             r.df.rows[idx].fecha_respuesta).table
                   /\ pending_sync' = TRUE
                   /\ Continue(w)
              ELSE Continue(w) /\ UNCHANGED <<csv, db, pending_sync, outbox>>
    /\ UNCHANGED <<batch, requests, http, classified, readable, response, returned, writable, cached, sync, drive>>

\* lines 878-932: the loaded frame is updated and, on success, saved; the
\* database is updated, the sync flag raised and the thank-you sent
WebhookRecord(w) ==
    /\ web[w].pc = "record"
    /\ LET m == CurrentMessage(w)
           r == update_response(web[w].df, m.from, standardized_response(m),
                                correlation_id(m), clock)
           idx == find_contact_by_phone(r.df, m.from)
       IN  /\ clock' = IF idx # 0 THEN clock + 1 ELSE clock
           /\ IF r.raised
              THEN Complete(w) /\ UNCHANGED <<csv, db, pending_sync, outbox>>
              ELSE IF r.success
              THEN /\ csv' = save_csv(r.df)
                   /\ db' = update_respuesta(db, m.from, standardized_response(m),
                                             r.df.rows[idx].fecha_respuesta).table
                   /\ pending_sync' = TRUE
                   /\ \E ok \in BOOLEAN : send_message(m.from, "thanks", ok)
                   /\ Continue(w)
              ELSE Continue(w) /\ UNCHANGED <<csv, db, pending_sync, outbox>>
    /\ UNCHANGED <<batch, requests, http, classified, readable, response, returned, writable, cached, sync, drive>>

\* ------------------------------- app.py: POST /api/messages/send-batch
\* lines 275-299: the store is loaded and the pending contacts selected; with
\* none pending the request is answered at once
BatchStart ==
    /\ batch.pc = "idle"
    /\ requests < MaxRequests
    /\ requests' = requests + 1
    /\ LET df == load_csv(csv).df
           pending == get_pending_contacts(df)
       IN  IF ~readable
           THEN /\ status' = [status EXCEPT !["send_batch"] = 400]
                /\ response' = [success |-> FALSE]
                /\ UNCHANGED batch
           ELSE IF pending = <<>>
           THEN /\ status' = [status EXCEPT !["send_batch"] = 200]
                /\ response' = [success |-> TRUE, stats |-> get_statistics(df)]
                /\ UNCHANGED batch
           ELSE /\ batch' = [pc |-> "send", df |-> df, pending_contacts |-> pending, k |-> 1,
                             sent_count |-> 0, error_count |-> 0, results |-> <<>>,
                             slept |-> FALSE]
                /\ status' = [status EXCEPT !["send_batch"] = 0]
                /\ UNCHANGED response
    /\ last' = NoLast
    /\ UNCHANGED <<csv, db, outbox, clock, pending_sync, web, http, classified, readable, returned, writable, cached, sync, drive>>

\* lines 306-375, one iteration: the template is sent to the k-th pending
\* contact and its row of the loaded frame updated; after a successful send
\* df.at[idx, 'fecha_envio'] raises KeyError when the frame has no such
\* column, and the request ends with 500 (line 395) without saving
BatchSend(success, result) ==
    /\ batch.pc = "send"
    /\ LET idx == batch.pending_contacts[batch.k]
           df == update_send_status(batch.df, idx, success, result, clock)
       IN  /\ send_message(batch.df.rows[idx].telefono_e164, "template", success)
           /\ clock' = clock + 1
           /\ IF success /\ "fecha_envio" \notin df.cols
              THEN /\ batch' = IdleBatch
                   /\ status' = [status EXCEPT !["send_batch"] = 500]
                   /\ response' = [success |-> FALSE]
                   /\ UNCHANGED db
              ELSE /\ db' = IF success
                            THEN insert_or_update_estudiante(db, BatchEstudiante(df, idx, result))
                            ELSE db
                   /\ batch' = [batch EXCEPT
                                  !.df = df,
                                  !.sent_count = IF success THEN @ + 1 ELSE @,
                                  !.error_count = IF success THEN @ ELSE @ + 1,
                                  !.k = @ + 1,
                                  !.results = Append(@, [phone |-> batch.df.rows[idx].telefono_e164,
                                                         success |-> success]),
                                  !.slept = (idx - 1 < Len(batch.pending_contacts) - 1),
                                  !.pc = IF batch.k = Len(batch.pending_contacts)
                                         THEN "save" ELSE "send"]
                   /\ UNCHANGED <<status, response>>
    /\ UNCHANGED <<csv, pending_sync, web, requests, last, http, classified, readable, returned, writable, cached, sync, drive>>

\* lines 377-393: the frame loaded at the start is written back and the
\* summary returned
BatchFinish ==
    /\ batch.pc = "save"
    /\ csv' = save_csv(batch.df)
    /\ batch' = IdleBatch
    /\ status' = [status EXCEPT !["send_batch"] = 200]
    /\ response' = [success |-> TRUE,
                    stats |-> [sent |-> batch.sent_count, errors |-> batch.error_count,
                               total_processed |-> Len(batch.pending_contacts)],
                    results |-> batch.results]
    /\ UNCHANGED <<db, outbox, clock, pending_sync, web, requests, last, http, classified, readable, returned, writable, cached, sync, drive>>

\* --------------------------------------------- webhook.py: POST /webhook
\* webhook_post: every message of the body is processed; any exception is
\* answered with 500
webhook_post(body) ==
    /\ requests < MaxRequests
    /\ requests' = requests + 1
    /\ IF body.kind \in {"missing", "malformed"}
       THEN /\ status' = [status EXCEPT !["webhook_post"] = 500]
            /\ UNCHANGED <<csv, clock>>
       ELSE /\ status' = [status EXCEPT !["webhook_post"] = 200]
            /\ csv' = IF readable /\ writable
                      THEN procesar_mensajes(csv, body.messages, clock) ELSE csv
            /\ clock' = clock + Len(body.messages)
    /\ last' = NoLast
    /\ UNCHANGED <<db, outbox, pending_sync, web, batch, http, classified, readable, response, returned, writable, cached, sync, drive>>

\* ------------------------- app.py and webhook.py: GET /webhook
\* the verification granted on the token alone
verify_webhook_any_mode(server, mode, token, challenge) ==
    IF token = VERIFY_TOKEN(server)
    THEN IF challenge = None
         THEN [status |-> 500, body |-> InternalServerError]
         ELSE [status |-> 200, body |-> challenge]
    ELSE [status |-> 403, body |-> Forbidden]

\* verify_webhook: the view of both servers: (challenge, 200) if the mode is 'subscribe' and
\* the token is the secret, else ('Forbidden', 403).  A view that returns
\* None as its body makes Flask answer 500.
verify_webhook(server, mode, token, challenge) ==
    IF mode = <<"s", "u", "b">> /\ token = VERIFY_TOKEN(server)
    THEN IF challenge = None
         THEN [status |-> 500, body |-> InternalServerError]
         ELSE [status |-> 200, body |-> challenge]
    ELSE [status |-> 403, body |-> Forbidden]

Servers == {"app", "webhook"}
Modes == { <<"s", "u", "b">>, <<"u", "n", "s">>, Empty, None }
Tokens == { <<"t", "1">>, <<"t", "2">>, <<"t">>, Empty, None }
Challenges == { <<"c", "1">>, <<"c", "2">>, Empty, <<"F">>, None }

Verify(server, mode, token, challenge) ==
    /\ http' = [server |-> server, mode |-> mode, token |-> token, challenge |-> challenge,
                status |-> verify_webhook(server, mode, token, challenge).status,
                body |-> verify_webhook(server, mode, token, challenge).body]
    /\ UNCHANGED <<csv, db, outbox, clock, pending_sync, web, batch, status, requests, last, classified, readable, response, returned, writable, cached, sync, drive>>

\* ---------------------------------------- app.py: the reply classifier
Classify(m) ==
    /\ classified = NoDecision
    /\ classified' = [m |-> m, decision |-> classify(m)]
    /\ UNCHANGED <<csv, db, outbox, clock, pending_sync, web, batch, status, requests, last, http, readable, response, returned, writable, cached, sync, drive>>

\* ------------------------------- WhatsAppService: one call of a send method
AccessTokens == {NoEnv, Empty, tu_token_aqui, <<"a", "t">>}
PhoneNumberIds == {NoEnv, Empty, <<"1", "2">>}
Methods == {"send_text_message", "send_template_message"}

Send(method, access_token, phone_number_id, outcome) ==
    /\ LET r == IF method = "send_text_message"
                THEN send_text_message(access_token, phone_number_id, outcome)
                ELSE send_template_message(access_token, phone_number_id, outcome)
       IN  returned' = [method |-> method, access_token |-> access_token,
                        phone_number_id |-> phone_number_id, outcome |-> outcome,
                        calls |-> r.calls, success |-> r.success, result |-> r.result,
                        raised |-> r.raised]
    /\ UNCHANGED <<csv, db, outbox, clock, pending_sync, web, batch, status, requests, last, http, classified, readable, response, writable, cached, sync, drive>>

\* ------------------------------------- app.py: POST /api/google/upload
\* the fileId and accessToken of the request, and the mimeType of the file's
\* metadata: a Google Sheet, or a type that is accepted for its file name
\* ('.csv') but is none of the three types the Drive update handles
FileId == <<"f">>
DriveToken == <<"g">>
Spreadsheet == <<"s", "h", "e", "e", "t">>
OctetStream == <<"o", "c", "t", "e", "t">>
MimeTypes == {Spreadsheet, OctetStream}
SupportedMimeTypes == {Spreadsheet, <<"c", "s", "v">>, <<"x", "l", "s", "x">>}

\* upload_from_google from the parsed frame on: the phones are cleaned, the
\* tracking columns added, the frame validated and written over bd_envio.csv;
\* then every row is upserted in the database (df['bootcamp_id'] raises
\* KeyError without that column, answered 500 with the file already saved)
upload_from_google(file, mime_type, update_success) ==
    /\ requests < MaxRequests
    /\ requests' = requests + 1
    /\ cached' = [file_id |-> FileId, access_token |-> DriveToken, mime_type |-> mime_type]
    /\ LET df == add_tracking_columns(clean_phone_numbers(file))
       IN  IF ~validate_dataframe(df)
           THEN /\ status' = [status EXCEPT !["upload_from_google"] = 400]
                /\ UNCHANGED <<csv, db, readable, drive>>
           ELSE IF ~writable     \* save_csv fails: 'No se pudo guardar CSV', 500
           THEN /\ status' = [status EXCEPT !["upload_from_google"] = 500]
                /\ UNCHANGED <<csv, db, readable, drive>>
           ELSE /\ csv' = df
                /\ readable' = TRUE
                /\ IF "bootcamp_id" \notin df.cols
                   THEN /\ status' = [status EXCEPT !["upload_from_google"] = 500]
                        /\ UNCHANGED <<db, drive>>
                   ELSE /\ status' = [status EXCEPT !["upload_from_google"] = 200]
                        /\ db' = UploadEstudiantes(db, file, df, 1)
                        /\ drive' = IF mime_type \in SupportedMimeTypes /\ update_success
                                    THEN df ELSE drive
    /\ last' = NoLast
    /\ UNCHANGED <<outbox, clock, pending_sync, web, batch, http, classified, response, returned, writable, sync>>

\* ------------------------------ app.py: the scheduled sync_to_drive_if_needed
\* lines 64-86 and 89-101: the job returns at once without pending changes,
\* without cached file id or token, when the store cannot be loaded and
\* when the cached type is none of the three it can update; else it holds
\* the loaded frame and calls the Drive update
sync_load ==
    /\ sync.pc = "idle"
    /\ IF /\ pending_sync
          /\ cached.file_id \notin {None, Empty}
          /\ cached.access_token \notin {None, Empty}
          /\ readable
          /\ cached.mime_type \in SupportedMimeTypes
       THEN sync' = [pc |-> "update", df |-> load_csv(csv).df]
       ELSE UNCHANGED sync
    /\ UNCHANGED <<csv, db, outbox, clock, pending_sync, web, batch, status, requests, last, http, classified, readable, response, returned, writable, cached, drive>>

\* sync_to_drive_if_needed resetting the flag whatever the update returned
sync_update_always_reset(update_success) ==
    /\ sync.pc = "update"
    /\ drive' = IF update_success THEN sync.df ELSE drive
    /\ pending_sync' = FALSE
    /\ sync' = IdleSync
    /\ UNCHANGED <<csv, db, outbox, clock, web, batch, status, requests, last, http, classified, readable, response, returned, writable, cached>>

\* lines 89-112: the Drive update returns (or raises, update_success FALSE);
\* pending_sync is reset after an update that succeeded
sync_update(update_success) ==
    /\ sync.pc = "update"
    /\ drive' = IF update_success THEN sync.df ELSE drive
    /\ pending_sync' = IF update_success THEN FALSE ELSE pending_sync
    /\ sync' = IdleSync
    /\ UNCHANGED <<csv, db, outbox, clock, web, batch, status, requests, last, http, classified, readable, response, returned, writable, cached>>

\* ----------------------------------------------------------- specifications
\* what send_template_message returns: (True, id of the message), where the
\* id is '' if the provider's message entry has none, or (False, error text)
SendOutcomes == { <<TRUE, <<"m">> >>, <<TRUE, Empty>>, <<FALSE, <<"e">> >> }

\* the threaded server with the standalone webhook server beside it: requests
\* are handled concurrently
Next ==
    \/ \E w \in Handlers, body \in SampleBodies : WebhookReceive(w, body)
    \/ \E w \in Handlers : WebhookMessage(w)
    \/ \E w \in Handlers : WebhookRecord(w)
    \/ BatchStart
    \/ \E o \in SendOutcomes : BatchSend(o[1], o[2])
    \/ BatchFinish
    \/ \E body \in StandaloneBodies : webhook_post(body)
    \/ \E file \in UploadFiles, mime_type \in MimeTypes, update_success \in BOOLEAN :
          upload_from_google(file, mime_type, update_success)
    \/ sync_load
    \/ \E update_success \in BOOLEAN : sync_update(update_success)
    \/ \E server \in Servers, mode \in Modes, token \in Tokens, challenge \in Challenges :
          Verify(server, mode, token, challenge)
    \/ classified = NoDecision /\ \E m \in ClassifyMessages : Classify(m)
    \/ \E method \in Methods, access_token \in AccessTokens,
          phone_number_id \in PhoneNumberIds, outcome \in ProviderOutcomes :
          Send(method, access_token, phone_number_id, outcome)

Spec == Init /\ [][Next]_vars

Quiet == batch.pc = "idle" /\ \A w \in Handlers : web[w].pc = "idle"

\* webhook requests of app.py handled one at a time
AppNext ==
    \/ Quiet /\ \E body \in SampleBodies : WebhookReceive("w1", body)
    \/ WebhookMessage("w1")
    \/ WebhookRecord("w1")

AppSpec == Init /\ [][AppNext]_vars

\* webhook requests of both servers handled one at a time
WebhookNext ==
    \/ Quiet /\ \E body \in SampleBodies : WebhookReceive("w1", body)
    \/ WebhookMessage("w1")
    \/ WebhookRecord("w1")
    \/ Quiet /\ \E body \in SampleBodies : webhook_post(body)

WebhookSpec == Init /\ [][WebhookNext]_vars

\* two webhook requests of app.py handled concurrently
RaceNext ==
    \/ \E w \in Handlers, body \in SampleBodies : WebhookReceive(w, body)
    \/ \E w \in Handlers : WebhookMessage(w)
    \/ \E w \in Handlers : WebhookRecord(w)

RaceSpec == Init /\ [][RaceNext]_vars

\* a batch-send pass with webhook requests of app.py handled beside it
BatchNext ==
    \/ \E body \in SampleBodies : WebhookReceive("w1", body)
    \/ WebhookMessage("w1")
    \/ WebhookRecord("w1")
    \/ BatchStart
    \/ \E o \in SendOutcomes : BatchSend(o[1], o[2])
    \/ BatchFinish

BatchSpec == Init /\ [][BatchNext]_vars

\* roster imports, batch-send passes and webhook requests of app.py handled
\* one at a time
ImportNext ==
    \/ Quiet /\ \E body \in SampleBodies : WebhookReceive("w1", body)
    \/ WebhookMessage("w1")
    \/ WebhookRecord("w1")
    \/ Quiet /\ \E file \in UploadFiles, mime_type \in MimeTypes, update_success \in BOOLEAN :
                  upload_from_google(file, mime_type, update_success)
    \/ Quiet /\ BatchStart
    \/ \E o \in SendOutcomes : BatchSend(o[1], o[2])
    \/ BatchFinish

ImportSpec == Init /\ [][ImportNext]_vars

\* batch-send passes run one after the other, nothing else running
PassNext ==
    \/ batch.pc = "idle" /\ BatchStart
    \/ \E o \in SendOutcomes : BatchSend(o[1], o[2])
    \/ BatchFinish

PassSpec == Init /\ [][PassNext]_vars

\* deliveries to the standalone server of webhook.py
StandaloneNext == \E body \in StandaloneBodies : webhook_post(body)

StandaloneSpec == StandaloneInit /\ [][StandaloneNext]_vars

\* the scheduled sync running beside roster imports and webhook requests of
\* app.py
SyncNext ==
    \/ Quiet /\ sync.pc = "idle"
          /\ \E file \in UploadFiles, mime_type \in MimeTypes, update_success \in BOOLEAN :
                upload_from_google(file, mime_type, update_success)
    \/ \E body \in SampleBodies : WebhookReceive("w1", body)
    \/ WebhookMessage("w1")
    \/ WebhookRecord("w1")
    \/ sync_load
    \/ \E update_success \in BOOLEAN : sync_update(update_success)

SyncSpec == Init /\ [][SyncNext]_vars

\* calls of the send methods of WhatsAppService
SendNext ==
    \E method \in Methods, access_token \in AccessTokens,
       phone_number_id \in PhoneNumberIds, outcome \in ProviderOutcomes :
       Send(method, access_token, phone_number_id, outcome)

SendSpec == Init /\ [][SendNext]_vars

\* verification requests to both servers
VerifyNext ==
    \E server \in Servers, mode \in Modes, token \in Tokens, challenge \in Challenges :
       Verify(server, mode, token, challenge)

VerifySpec == Init /\ [][VerifyNext]_vars

\* the classifier applied to one message
ClassifyNext == classified = NoDecision /\ \E m \in ClassifyMessages : Classify(m)

ClassifySpec == Init /\ [][ClassifyNext]_vars

\* ------------------------------------------------------------------- claims
\* steps of app.py's webhook handler w, told by its position
MessageStep(w) == web[w].pc = "msg" /\ web'[w] # web[w]
RecordStep(w) == web[w].pc = "record" /\ web'[w] # web[w]
HandlingStep(w) == MessageStep(w) \/ RecordStep(w)

\* the row of the file that the sender of the message being handled matches
\* (0: none), and whether that contact has a reply stored
SenderRow(w) == find_contact_by_phone(csv, CurrentMessage(w).from)
Answered(file, i) == file.rows[i].respuesta # Empty
Rows == 1..Len(csv.rows)

\* C1: a step of app.py's webhook handler changes a stored reply only from
\* empty to Yes or No; a reply that is Yes or No is never overwritten.
C1_ReplyTerminal ==
    [][\A w \in Handlers : RecordStep(w) =>
          \A i \in Rows :
             \/ csv'.rows[i].respuesta = csv.rows[i].respuesta
             \/ ~Answered(csv, i) /\ csv'.rows[i].respuesta \in {Si, No}]_vars

\* C2: the read-check-write of a reply is atomic: a handler that loaded the
\* store while the contact had no reply writes its decision only if the
\* store still has no reply for that contact (so of two concurrent
\* deliveries only one writes).
C2_AtomicReadCheckWrite ==
    [][\A w \in Handlers :
          (/\ RecordStep(w)
           /\ SenderRow(w) # 0
           /\ ~Answered(web[w].df, SenderRow(w))
           /\ csv' # csv)
          => ~Answered(csv, SenderRow(w))]_vars

\* C3: the save that ends a batch-send pass keeps every reply that is in the
\* store when the pass ends (a reply recorded during the pass is not lost).
C3_PassKeepsReplies ==
    [][batch.pc = "save" /\ batch'.pc = "idle" =>
          \A i \in Rows : Answered(csv, i) =>
             /\ csv'.rows[i].respuesta = csv.rows[i].respuesta
             /\ csv'.rows[i].fecha_respuesta = csv.rows[i].fecha_respuesta]_vars

\* C4: handling an inbound event from a contact whose reply is already
\* recorded sends nothing (neither thank-you nor validation text).
C4_NoSendOnceAnswered ==
    [][\A w \in Handlers :
          (HandlingStep(w) /\ SenderRow(w) # 0 /\ Answered(csv, SenderRow(w)))
          => outbox' = outbox]_vars

\* C5: handling an inbound event whose sender matches no contact of the
\* store sends nothing.
C5_NoSendToUnknown ==
    [][\A w \in Handlers :
          (HandlingStep(w) /\ SenderRow(w) = 0) => outbox' = outbox]_vars

\* C6: handling an inbound event whose sender matches no contact of the
\* store leaves the store unchanged, in app.py's webhook and in the
\* standalone webhook server: no row is created and no field changes.
C6_UnknownLeavesStore ==
    [][/\ \A w \in Handlers :
            (HandlingStep(w) /\ SenderRow(w) = 0) => (csv' = csv /\ db' = db)
       /\ \A body \in SampleBodies :
            (/\ webhook_post(body)
             /\ \A k \in DOMAIN body.messages :
                   find_contact_by_phone(csv, body.messages[k].from) = 0)
            => (csv' = csv /\ db' = db)]_vars

\* a valid reply from a phone that is in no row has been handled by app.py
C6_Witness ==
    /\ last.body.kind = "ok"
    /\ \A k \in DOMAIN last.body.messages :
          /\ find_contact_by_phone(csv, last.body.messages[k].from) = 0
          /\ is_valid_response(last.body.messages[k])
    /\ status["w1"] = 200

\* C7: handling an inbound event from a contact whose reply is already
\* recorded leaves its fecha_respuesta and respuesta_id unchanged.
C7_ReplyStampKept ==
    [][\A w \in Handlers :
          (HandlingStep(w) /\ SenderRow(w) # 0 /\ Answered(csv, SenderRow(w)))
          => /\ csv'.rows[SenderRow(w)].fecha_respuesta = csv.rows[SenderRow(w)].fecha_respuesta
             /\ csv'.rows[SenderRow(w)].respuesta_id = csv.rows[SenderRow(w)].respuesta_id]_vars

\* C8: when a request is completed whose body is the one handled just
\* before it, every contact's stored reply is what it was when the request
\* was received, i.e. what the previous handling of the same event left.
Replies(file) == [i \in 1..Len(file.rows) |-> file.rows[i].respuesta]

C8_Idempotent ==
    [][\A w \in Handlers :
          (web[w].pc # "idle" /\ web'[w].pc = "idle" /\ web[w].body = last.body)
          => Replies(csv') = Replies(web[w].csv0)]_vars

\* the same valid reply of a rostered contact has been handled twice in a row
\* and is recorded
C8_Witness ==
    /\ last.n >= 2
    /\ last.body.kind = "ok"
    /\ \E k \in DOMAIN last.body.messages :
          LET i == find_contact_by_phone(csv, last.body.messages[k].from)
          IN  i # 0 /\ is_valid_response(last.body.messages[k]) /\ Answered(csv, i)

\* C9: every POST /webhook handler answers 200 to every request.
C9_Always200 ==
    \A h \in Handlers \cup {"webhook_post"} : status[h] \in {0, 200}

ExplicitOptIn(file, i) == Upper(Strip(StrCell(file.rows[i].opt_in))) \in OptInTrue
NotSent(file, i) == Lower(Strip(StrCell(file.rows[i].estado_envio_simple))) # sent
Selected(b) == {b.pending_contacts[k] : k \in DOMAIN b.pending_contacts}

\* C10: a contact is in the set selected by a batch-send pass if and only if
\* its opt_in is explicitly true and its send state is not sent; in
\* particular no contact of a store without opt_in column is selected.
C10_EligibleIffOptIn ==
    [][BatchStart =>
          \A i \in Rows :
             i \in Selected(batch') <=> (ExplicitOptIn(csv, i) /\ NotSent(csv, i))]_vars

\* C11: over any sequence of batch-send passes and interruptions, the
\* provider accepts the batch template for each contact at most once.
TemplatesAccepted(phone) ==
    Cardinality({k \in DOMAIN outbox : /\ outbox[k].kind = "template"
                                       /\ outbox[k].ok
                                       /\ outbox[k].to = NormalizePhone(phone)})

C11_SentAtMostOnce ==
    \A i \in Rows : TemplatesAccepted(csv.rows[i].telefono_e164) <= 1

\* C12: a roster import or a database upsert never erases a recorded reply:
\* a contact whose stored reply is Yes or No before the import or the upsert
\* has the same reply afterwards, in the contact file and in the database.
RepliesOf(rows, phone) ==
    {rows[i].respuesta : i \in {j \in DOMAIN rows : clean_phone(rows[j].telefono_e164) = clean_phone(phone)}}

C12_UpsertKeepsReply ==
    [][(\/ \E file \in UploadFiles, mime_type \in MimeTypes, update_success \in BOOLEAN :
              upload_from_google(file, mime_type, update_success)
        \/ \E o \in SendOutcomes : BatchSend(o[1], o[2]))
       => /\ \A i \in DOMAIN csv.rows :
               (csv.rows[i].respuesta \in {Si, No}
                /\ RepliesOf(csv'.rows, csv.rows[i].telefono_e164) # {})
               => RepliesOf(csv'.rows, csv.rows[i].telefono_e164) = {csv.rows[i].respuesta}
          /\ \A i \in DOMAIN db :
               db[i].respuesta \in {Si, No}
               => /\ i \in DOMAIN db'
                  /\ db'[i].respuesta = db[i].respuesta]_vars

\* C13: when a Yes or No reply of a rostered contact without a stored reply
\* is handled, the contact's stored reply is the classified decision, its
\* fecha_respuesta is set and its respuesta_id is the event's correlation
\* id: the button or interactive id if there is one, else the message text.
ClaimedCorrelationId(m) ==
    IF Extract(m).button_id # Empty THEN Extract(m).button_id ELSE Extract(m).response_text

C13_ReplyRecorded ==
    [][\A w \in Handlers :
          (RecordStep(w) /\ SenderRow(w) # 0 /\ ~Answered(csv, SenderRow(w)))
          => LET row == csv'.rows[SenderRow(w)]
             IN  /\ row.respuesta = standardized_response(CurrentMessage(w))
                 /\ row.fecha_respuesta # 0
                 /\ row.respuesta_id = ClaimedCorrelationId(CurrentMessage(w))]_vars

\* the claimed classification of a message as Invalid: its text, trimmed and
\* lower-cased, is none of the accepted tokens
Invalid(m) ==
    response_normalized(m) \notin
        { <<"s", "i">>, <<"s", "í">>, <<"y", "e", "s">>, <<"y">>, <<"n", "o">>, <<"n">> }

\* C14: handling a message classified Invalid changes neither the contact
\* file nor the database: every contact's reply, reply timestamp and reply
\* id are the same before and after.
C14_InvalidChangesNothing ==
    [][\A w \in Handlers :
          (HandlingStep(w) /\ Invalid(CurrentMessage(w))) => (csv' = csv /\ db' = db)]_vars

\* an invalid text of a rostered contact has been handled and answered with
\* the validation text
C14_Witness ==
    /\ last.body.kind = "ok"
    /\ status["w1"] = 200
    /\ \A k \in DOMAIN last.body.messages :
          /\ Invalid(last.body.messages[k])
          /\ find_contact_by_phone(csv, last.body.messages[k].from) # 0
    /\ \E k \in DOMAIN outbox : outbox[k].kind = "validation"

\* C15: handling an Invalid message of a rostered contact without a stored
\* reply sends exactly one validation text to that phone and no thank-you,
\* also when the message has no text or is of an unsupported kind.
C15_InvalidGetsValidation ==
    [][\A w \in Handlers :
          (/\ MessageStep(w)
           /\ Invalid(CurrentMessage(w))
           /\ SenderRow(w) # 0
           /\ ~Answered(csv, SenderRow(w)))
          => /\ Len(outbox') = Len(outbox) + 1
             /\ SubSeq(outbox', 1, Len(outbox)) = outbox
             /\ outbox'[Len(outbox')].kind = "validation"
             /\ outbox'[Len(outbox')].to = NormalizePhone(CurrentMessage(w).from)]_vars

\* C16: when the thank-you of a recorded (saved) reply is not accepted, the reply is
\* in the saved file all the same and the request, when it ends, is answered
\* with 200.
C16_FailedThanksKeepsReply ==
    [][\A w \in Handlers :
          (/\ RecordStep(w)
           /\ writable
           /\ Len(outbox') = Len(outbox) + 1
           /\ outbox'[Len(outbox')].kind = "thanks"
           /\ ~outbox'[Len(outbox')].ok)
          => /\ SenderRow(w) # 0
             /\ csv'.rows[SenderRow(w)].respuesta = standardized_response(CurrentMessage(w))
             /\ csv'.rows[SenderRow(w)].fecha_respuesta = clock
             /\ web'[w].pc = "idle" => status'[w] = 200]_vars

\* a request has ended with 200 after a thank-you that was not accepted, and
\* the reply is stored
C16_Witness ==
    /\ status["w1"] = 200
    /\ web["w1"].pc = "idle"
    /\ outbox # <<>>
    /\ LET t == outbox[Len(outbox)]
       IN  /\ t.kind = "thanks"
           /\ ~t.ok
           /\ \E i \in Rows : /\ NormalizePhone(csv.rows[i].telefono_e164) = t.to
                              /\ csv.rows[i].respuesta \in {Si, No}

\* C18: a free text that starts with an affirmative word followed by other
\* words, sent by a rostered contact without a stored reply, is classified
\* Yes: once the request has ended the contact's reply is 'Sí' and the one
\* message sent is the thank-you.
C18_AffirmativeSentence ==
    (/\ requests = 1
     /\ last.body = Body("ok", <<SampleMessages[9]>>)
     /\ find_contact_by_phone(csv, Phone57) # 0)
    => /\ csv.rows[find_contact_by_phone(csv, Phone57)].respuesta = Si
       /\ Len(outbox) = 1
       /\ outbox[1].kind = "thanks"

\* C20: in every state of the store a contact whose send state is 'sent' has
\* a non-empty message id.
C20_SentHasMessageId ==
    \A i \in Rows :
       Lower(Strip(StrCell(csv.rows[i].estado_envio_simple))) = sent
       => csv.rows[i].message_id_simple # Empty

DecisionOf(token) ==
    IF token \in { <<"s", "i">>, <<"s", "í">>, <<"y", "e", "s">>, <<"y">> } THEN "Yes"
    ELSE IF token \in { <<"n", "o">>, <<"n">> } THEN "No"
    ELSE "Invalid"

\* accented vowels taken for their unaccented letter
Unaccent(s) ==
    [k \in 1..Len(s) |-> CASE s[k] = "í" -> "i"
                           [] s[k] = "ó" -> "o"
                           [] OTHER -> s[k]]

PassSentAll ==
    /\ status["send_batch"] = 200
    /\ "results" \in DOMAIN response
    /\ response.stats.total_processed > 0
    /\ response.stats.sent = response.stats.total_processed

\* C21: a batch-send pass started right after a pass in which every selected
\* contact was sent to successfully selects no contact, sends nothing and
\* answers with the summary sent = 0, errors = 0, total_processed = 0.
C21_RepeatedPassEmpty ==
    [][(BatchStart /\ PassSentAll)
       => /\ batch'.pc = "idle"
          /\ outbox' = outbox
          /\ status'["send_batch"] = 200
          /\ "stats" \in DOMAIN response'
          /\ "total_processed" \in DOMAIN response'.stats
          /\ response'.stats.sent = 0
          /\ response'.stats.errors = 0
          /\ response'.stats.total_processed = 0]_vars

SendFields == {"estado_envio_simple", "fecha_envio_simple", "message_id_simple"}
OtherFields == {"telefono_e164", "opt_in", "bootcamp_id", "respuesta", "fecha_respuesta", "respuesta_id"}
SameFields(r1, r2, fields) == \A f \in fields : r1[f] = r2[f]

SendStep == batch.pc = "send" /\ batch' # batch
SaveStep == batch.pc = "save" /\ batch'.pc = "idle"

\* C23: every iteration of a pass attempts the next selected contact once and
\* goes on to the next one or to the save; the pass ends with a summary where
\* sent + errors = total_processed = number of results = number of selected
\* contacts, and every selected contact is stored as 'sent' or 'error'
\* according to its own attempt.
C23_SummaryCountsAttempts ==
    [][/\ SendStep
          => /\ Len(outbox') = Len(outbox) + 1
             /\ batch'.pc \in {"send", "save"}
             /\ batch'.pending_contacts = batch.pending_contacts
             /\ batch'.k = batch.k + 1
             /\ Len(batch'.results) = batch.k
       /\ SaveStep
          => /\ response'.stats.sent + response'.stats.errors = response'.stats.total_processed
             /\ response'.stats.total_processed = Len(response'.results)
             /\ Len(response'.results) = Len(batch.pending_contacts)
             /\ \A j \in DOMAIN batch.pending_contacts :
                   csv'.rows[batch.pending_contacts[j]].estado_envio_simple
                      = IF response'.results[j].success THEN sent ELSE error]_vars

\* the selected rows the pass has not attempted yet
NotAttempted == Selected(batch) \ {batch.pending_contacts[j] : j \in 1..(batch.k - 1)}

\* C24: every attempt of a pass goes to the selected contact that comes
\* first in the row order of the store among those not attempted yet.
C24_AttemptsInRowOrder ==
    [][SendStep
       => LET first == CHOOSE i \in NotAttempted : \A j \in NotAttempted : i <= j
          IN  /\ Len(outbox') = Len(outbox) + 1
              /\ outbox'[Len(outbox')].kind = "template"
              /\ outbox'[Len(outbox')].to = NormalizePhone(batch.df.rows[first].telefono_e164)]_vars

\* a pass has attempted two contacts
C24_Witness ==
    /\ batch.pc = "save"
    /\ Len(batch.results) = 2
    /\ batch.pending_contacts[1] < batch.pending_contacts[2]
    /\ outbox[Len(outbox) - 1].to = NormalizePhone(batch.df.rows[batch.pending_contacts[1]].telefono_e164)
    /\ outbox[Len(outbox)].to = NormalizePhone(batch.df.rows[batch.pending_contacts[2]].telefono_e164)

\* the (phone, cohort) key of a record, the phone in digits-only form
Key(record) == <<clean_phone(record.telefono_e164), record.bootcamp_id>>

\* C25: no two rows of the contact file and no two records of the
\* estudiantes table have the same (phone, cohort) key, the phones compared
\* in digits-only form.
C25_UniqueKey ==
    /\ \A i, j \in DOMAIN csv.rows : Key(csv.rows[i]) = Key(csv.rows[j]) => i = j
    /\ \A i, j \in DOMAIN db : Key(db[i]) = Key(db[j]) => i = j

\* C26: while the store cannot be read, handling a webhook message sends
\* nothing, changes nothing and the request is still answered 200; a
\* batch-send pass sends nothing and is answered with an error.
C26_UnreadableStoreSendsNothing ==
    [][~readable
       => /\ \A w \in Handlers :
                HandlingStep(w) => /\ outbox' = outbox
                                   /\ csv' = csv
                                   /\ db' = db
                                   /\ status'[w] \in {0, 200}
          /\ BatchStart => /\ outbox' = outbox
                           /\ csv' = csv
                           /\ batch'.pc = "idle"
                           /\ status'["send_batch"] >= 400
                           /\ ~response'.success]_vars

Configured(r) == validate_credentials(r.access_token, r.phone_number_id).valid

\* C27: a call of send_text_message or send_template_message makes at most
\* one call to the provider and raises nothing; when the provider rejects
\* the message, times out or the network fails, it returns a failure with an
\* error text; without configured credentials it returns a failure with an
\* error text and makes no call to the provider.
C27_OneCallNoRetry ==
    returned.method \in Methods
    => /\ returned.calls <= 1
       /\ ~returned.raised
       /\ returned.outcome \in {"rejected", "timeout", "connection"}
          => ~returned.success /\ returned.result # Empty
       /\ ~Configured(returned)
          => returned.calls = 0 /\ ~returned.success /\ returned.result # Empty
       /\ Configured(returned) => returned.calls = 1

\* the provider timed out on a template sent with configured credentials
C27_Witness ==
    /\ returned.method = "send_template_message"
    /\ Configured(returned)
    /\ returned.outcome = "timeout"
    /\ returned.calls = 1
    /\ ~returned.success
    /\ returned.result = ErrTimeout

\* C28: every frame that load_csv has returned to a handler has the six
\* tracking columns: the three send columns and the three reply columns.
C28_LoadCreatesSixColumns ==
    /\ \A w \in Handlers :
          web[w].pc = "record" => (TrackingColumns \cup ResponseColumns) \subseteq web[w].df.cols
    /\ batch.pc = "send" => (TrackingColumns \cup ResponseColumns) \subseteq batch.df.cols

\* C29: the lookup of a sender in a loaded frame finds a contact whenever
\* the sender's phone and a stored phone are equal once '+', spaces,
\* hyphens and parentheses are stripped from both.
C29_LookupStripsPunctuation ==
    \A w \in Handlers :
       web[w].pc = "record"
       => \A i \in DOMAIN web[w].df.rows :
             clean_phone(web[w].df.rows[i].telefono_e164) = clean_phone(CurrentMessage(w).from)
             => find_contact_by_phone(web[w].df, CurrentMessage(w).from) # 0

\* C30: every send attempt of a pass but the first is made after the
\* inter-message delay has run since the attempt before it.
C30_DelayBetweenAttempts ==
    [][(SendStep /\ batch.k > 1) => batch.slept]_vars

\* C31: the messages of a delivery are handled one at a time in delivery
\* order and all of them are handled: a step of a handler stays on its
\* message, goes on to the next message, or ends the request after the last
\* message of the delivery.
C31_EveryMessageHandled ==
    [][\A w \in Handlers :
          HandlingStep(w)
          => \/ web'[w].pc = "record" /\ web'[w].i = web[w].i
             \/ web'[w].pc = "msg" /\ web'[w].i = web[w].i + 1
             \/ web'[w].pc = "idle" /\ web[w].i = Len(web[w].body.messages)]_vars

\* C32: when the handler records a reply, the only records of the
\* estudiantes table that change are those whose normalized phone is the
\* sender's and whose reply is still NULL or empty.
C32_UpdatesSenderRowsOnly ==
    [][\A w \in Handlers :
          RecordStep(w)
          => /\ Len(db') = Len(db)
             /\ \A i \in DOMAIN db :
                   db'[i] # db[i]
                   => /\ SqlClean(db[i].telefono_e164) = SqlClean(CurrentMessage(w).from)
                      /\ db[i].respuesta \in {Null, Empty}]_vars

\* C33: a thank-you is sent for a reply only if the reply is in the saved
\* store: after a step that sends the thank-you, the sender's row of the
\* file holds the reply.
C33_ThanksOnlyAfterSave ==
    [][\A w \in Handlers :
          (/\ RecordStep(w)
           /\ Len(outbox') = Len(outbox) + 1
           /\ outbox'[Len(outbox')].kind = "thanks")
          => \E i \in DOMAIN csv'.rows :
                /\ NormalizePhone(StrCell(csv'.rows[i].telefono_e164))
                      = NormalizePhone(CurrentMessage(w).from)
                /\ csv'.rows[i].respuesta = standardized_response(CurrentMessage(w))]_vars

\* C34: sync_to_drive_if_needed starts a Drive update only when pending_sync
\* is true, a file id and an access token are cached, the store was loaded
\* and the cached type is supported; pending_sync goes from true to false
\* only in the step of an update that succeeded, and an update that failed
\* leaves it as it was
C34_SyncResetsAfterSuccess ==
    [][/\ (sync.pc = "idle" /\ sync'.pc = "update")
          => /\ pending_sync
             /\ cached.file_id \notin {None, Empty}
             /\ cached.access_token \notin {None, Empty}
             /\ readable
             /\ cached.mime_type \in SupportedMimeTypes
       /\ (sync.pc = "update" /\ drive' # drive)
          => /\ pending_sync
             /\ cached.file_id \notin {None, Empty}
             /\ cached.access_token \notin {None, Empty}
       /\ (pending_sync /\ ~pending_sync') => sync_update(TRUE)
       /\ (sync_update(FALSE) /\ pending_sync) => (pending_sync' /\ drive' = drive)]_vars

\* a sync has uploaded a recorded reply and reset the flag
C34_Witness ==
    /\ ~pending_sync
    /\ sync.pc = "idle"
    /\ cached # NoCache
    /\ drive # NoDf
    /\ \E i \in DOMAIN drive.rows : drive.rows[i].respuesta # Empty

\* C35: a recorded reply that is not in the Drive file keeps pending_sync
\* true: in a step that resets pending_sync, every reply the local store
\* holds is in the file the sync has written to Drive, also when the reply
\* was recorded between the sync's load of the store and its reset
C35_NoReplyLeftBehind ==
    [][(pending_sync /\ ~pending_sync')
       => \A i \in DOMAIN csv'.rows :
             csv'.rows[i].respuesta # Empty
             => /\ i \in DOMAIN drive'.rows
                /\ drive'.rows[i].respuesta = csv'.rows[i].respuesta]_vars

\* a message webhook.py processes: an interactive button reply or a text,
\* with a non-empty title or body
Processed(m) ==
    /\ m.text # Empty
    /\ \/ m.type = "interactive" /\ m.itype = "button_reply"
       \/ m.type = "text"

\* the rows of the file whose normalized phone is the sender's
SenderRows(file, m) ==
    {i \in DOMAIN file.rows :
        Remove(Remove(Remove(file.rows[i].telefono_e164, "+"), " "), "-")
          = Remove(Remove(Remove(m.from, "+"), " "), "-")}

\* message k is the last one of the delivery that its sender's rows receive
LastFromSender(body, k) ==
    \A j \in DOMAIN body.messages :
       (j > k /\ Processed(body.messages[j]))
       => body.messages[j].from # body.messages[k].from

\* C36: in webhook.py, with the file readable and writable, a processed
\* message (button reply or non-empty text) from a phone of the file leaves
\* on every row of that phone the raw title or text as reply, the button id
\* (or 'text_libre' for a text) as reply id and the handling time as
\* timestamp; the test's button event leaves reply 'Sí confirmo' with its
\* check mark and reply id 'btn_si'
C36_StandaloneStoresRawReply ==
    [][\A body \in StandaloneBodies :
          (webhook_post(body) /\ body.kind = "ok" /\ readable /\ writable)
          => /\ \A k \in DOMAIN body.messages :
                   (Processed(body.messages[k]) /\ LastFromSender(body, k))
                   => \A i \in SenderRows(csv, body.messages[k]) :
                         /\ csv'.rows[i].respuesta = body.messages[k].text
                         /\ csv'.rows[i].respuesta_id
                              = IF body.messages[k].type = "interactive"
                                THEN body.messages[k].id
                                ELSE <<"t", "e", "x", "t", "_", "l", "i", "b", "r", "e">>
                         /\ csv'.rows[i].fecha_respuesta = clock + k - 1
             /\ body = Body("ok", <<TestButtonEvent>>)
                => \A i \in SenderRows(csv, TestButtonEvent) :
                      /\ csv'.rows[i].respuesta = SiConfirmo
                      /\ csv'.rows[i].respuesta_id = btn_si]_vars

\* the test's button event has been stored on both rows of a phone that the
\* file lists twice
C36_Witness ==
    /\ status["webhook_post"] = 200
    /\ \E i, j \in DOMAIN csv.rows :
          /\ i # j
          /\ csv.rows[i].respuesta = SiConfirmo /\ csv.rows[i].respuesta_id = btn_si
          /\ csv.rows[j].respuesta = SiConfirmo /\ csv.rows[j].respuesta_id = btn_si

====
